---- MODULE Spec2Model ----
(***************************************************************************)
(* Contest-entry API server (src/server/server.js).  The file holds two    *)
(* builds of the server: the "retry" build (lines 1-653: dependency gates, *)
(* retrying start-up, inline base64 files) and the "cached" build (lines   *)
(* 654-1275: cached connection, per-request connect, temp:// file urls).   *)
(* The model carries both; `variant` says which build is running.          *)
(*                                                                         *)
(* Representation of JavaScript values:                                    *)
(*   - short strings (userId, category, entryType) are TLA+ strings and "" *)
(*     stands for an absent or empty field (both are falsy in the code);   *)
(*   - title and description are represented by their length, -1 = absent; *)
(*   - decimal strings (intent metadata) are sequences of characters;      *)
(*   - NaN is the number -1 (every real amount is >= 0);                   *)
(*   - a payment-intent id is a record [pre, n]: "pi_" ids are issued by   *)
(*     the gateway, "pi_test_" ids are built from Date.now().              *)
(***************************************************************************)
EXTENDS Integers, Sequences, FiniteSets, Bags, TLC

VARIABLES
  variant,          \* which build of server.js is running
  nodeEnv,          \* process.env.NODE_ENV
  stripe,           \* the gateway client handle: TRUE when set
  webhookSecret,    \* process.env.STRIPE_WEBHOOK_SECRET is set
  readyState,       \* mongoose.connection.readyState (0 disconnected, 1 connected,
                    \* 2 connecting, 3 disconnecting)
  cachedConnection, \* cached build: the cached connection handle is non-null
  intents,          \* the gateway's payment intents, by number
  entries,          \* the Entry collection: a set of documents
  ids,              \* number of ObjectIds issued so far (one per insert)
  inflight,         \* bag of handler continuations suspended at an await
  out,              \* the last response sent
  calls,            \* the gateway and store calls of the request last served
  exited,           \* the process has ended (process.exit)
  stripeVerified,   \* retry build: an initializeStripe attempt has verified
  dbAttempts        \* start-up connectDB calls running or on a timer

vars == <<variant, nodeEnv, stripe, webhookSecret, readyState, cachedConnection,
          intents, entries, ids, inflight, out, calls, exited, stripeVerified,
          dbAttempts>>

\* the state only start-up writes
startup == <<exited, stripeVerified, dbAttempts>>

-----------------------------------------------------------------------------
(* Bounds of the model *)

MaxEntries == 2

MaxIntents == 2

MaxInFlight == 1

MaxContentEntries == 1

MaxRaceInFlight == 2

MaxConnectRequests == 2

-----------------------------------------------------------------------------
(* JavaScript values *)

NaN == -1

\* a value that is neither a number nor falsy: a function or an object
Inherited == -2

UndefLen == -1

Missing == ""

DigitChars == <<"0", "1", "2", "3", "4", "5", "6", "7", "8", "9">>

\* Number.prototype.toString on a non-negative integer
RECURSIVE toString(_)
toString(n) ==
  IF n < 10 THEN <<DigitChars[n + 1]>>
  ELSE toString(n \div 10) \o <<DigitChars[(n % 10) + 1]>>

DigitValue(c) == CHOOSE d \in 0..9 : DigitChars[d + 1] = c

IsDigit(c) == \E d \in 0..9 : DigitChars[d + 1] = c

RECURSIVE ParseDigits(_, _, _)
ParseDigits(s, i, acc) ==
  IF i > Len(s) \/ ~IsDigit(s[i]) THEN acc
  ELSE ParseDigits(s, i + 1, acc * 10 + DigitValue(s[i]))

\* parseInt of a decimal string: the leading digits, NaN when there are none
ParseInt(s) ==
  IF Len(s) = 0 \/ ~IsDigit(s[1]) THEN NaN ELSE ParseDigits(s, 1, 0)

\* Math.floor in place of Math.ceil
FloorFourPercent(baseAmount) == (baseAmount * 4) \div 100

\* Math.ceil(baseAmount * 0.04) on whole dollar amounts
CeilFourPercent(baseAmount) == (baseAmount * 4 + 99) \div 100

\* on a value that is no number the product is NaN and the sum is a string,
\* whose product with 100 is NaN again; the total is written NaN then
calculateFees(baseAmount) ==
  IF baseAmount = Inherited
  THEN [stripeFee |-> NaN, totalAmount |-> NaN]
  ELSE LET stripeFee == CeilFourPercent(baseAmount)
       IN  [stripeFee |-> stripeFee, totalAmount |-> baseAmount + stripeFee]

-----------------------------------------------------------------------------
(* Values of the request and document fields *)

Variants == {"retry", "cached"}

NoPid == [pre |-> "", n |-> 0]

GwPid(n) == [pre |-> "pi_", n |-> n]

TestPid(t) == [pre |-> "pi_test_", n |-> t]

\* A text: optional leading white space, `words` words separated by white
\* space, optional trailing white space.  def = FALSE is undefined.
NoText == [def |-> FALSE, lead |-> FALSE, words |-> 0, trail |-> FALSE]

PlainText(n) == [def |-> TRUE, lead |-> FALSE, words |-> n, trail |-> FALSE]

NoUrl == [def |-> FALSE, scheme |-> "", www |-> FALSE, host |-> ""]

NoFile == [present |-> FALSE, mimetype |-> "", size |-> 0, originalname |-> "",
           buffer |-> <<>>]

NoData == [def |-> FALSE, chars |-> <<>>]

NoFileUrl == [def |-> FALSE, pre |-> "", pid |-> NoPid, name |-> ""]

Categories == {"business", "creative", "technology", "social-impact"}

EntryTypes == {"text", "pitch-deck", "video"}

PaymentStatuses == {"pending", "succeeded", "failed"}

Statuses == {"submitted", "under-review", "finalist", "winner", "rejected"}

TitleMinLength == 5

TitleMaxLength == 100

DescriptionMaxLength == 1000

MinWords == 100

MaxWords == 2000

\* names that every object literal inherits from Object.prototype
InheritedKeys == {"constructor"}

\* baseFees[category] of create-payment-intent: the table's number; for an
\* inherited name the inherited property; 0 for "no such key" (undefined)
baseFees(category) ==
  CASE category = "business" -> 49
    [] category = "creative" -> 49
    [] category = "technology" -> 99
    [] category = "social-impact" -> 49
    [] category \in InheritedKeys -> Inherited
    [] OTHER -> 0

AllowedMimeTypes == {"application/pdf", "application/vnd.ms-powerpoint",
  "application/vnd.openxmlformats-officedocument.presentationml.presentation"}

isVercelServerless == nodeEnv = "production"

\* cached build: the serverless deployment is the production one
isVercel == nodeEnv = "production"

MB == 1024 * 1024

maxSize == IF variant = "retry"
           THEN (IF isVercelServerless THEN 4 * MB ELSE 25 * MB)
           ELSE 25 * MB

-----------------------------------------------------------------------------
(* The calls a handler makes on the gateway client and on the Entry model.  *)
(* `calls` lists, in order, those the request last served has made.         *)

GatewayCreate == "stripe.paymentIntents.create"

GatewayRetrieve == "stripe.paymentIntents.retrieve"

StoreSave == "Entry.save"

StoreInsertMany == "Entry.insertMany"

StoreFind == "Entry.find"

StoreFindById == "Entry.findById"

StoreFindOne == "Entry.findOne"

StoreFindByIdAndDelete == "Entry.findByIdAndDelete"

StoreFindOneAndUpdate == "Entry.findOneAndUpdate"

GatewayCalls == {GatewayCreate, GatewayRetrieve}

StoreReads == {StoreFind, StoreFindById, StoreFindOne}

StoreWrites == {StoreSave, StoreInsertMany, StoreFindByIdAndDelete,
                StoreFindOneAndUpdate}

-----------------------------------------------------------------------------
(* Responses *)

NoBody == [entryId |-> 0, entryFee |-> 0, stripeFee |-> 0, totalAmount |-> 0]

Resp(op, code, error) ==
  [op |-> op, code |-> code, error |-> error, data |-> NoBody, payload |-> <<>>]

RespData(op, code, data) ==
  [op |-> op, code |-> code, error |-> "", data |-> data, payload |-> <<>>]

\* a response whose body is a list of documents
RespList(op, code, payload) ==
  [op |-> op, code |-> code, error |-> "", data |-> NoBody, payload |-> payload]

NoResp == Resp("", 0, "")

\* the response leaves the server; a handler step runs when the previous
\* response has left
ResponseSent ==
  /\ out # NoResp
  /\ ~exited
  /\ out' = NoResp
  /\ calls' = <<>>
  /\ UNCHANGED <<startup, variant, nodeEnv, stripe, webhookSecret, readyState,
                 cachedConnection, intents, entries, ids, inflight>>

-----------------------------------------------------------------------------
(* Initial state: the module has just been loaded.  The gateway handle is  *)
(* set when the secret key is configured (the retry build sets it before   *)
(* its verification call returns); no database connection is open yet.     *)
(* The retry build has called connectDB() once; the cached build calls it  *)
(* from its listen callback when it runs locally.                          *)

Init ==
  /\ variant \in Variants
  /\ nodeEnv \in {"development", "production"}
  /\ stripe \in BOOLEAN
  /\ webhookSecret = stripe
  /\ nodeEnv = "production" => stripe
  /\ readyState = IF variant = "retry" THEN 2 ELSE 0
  /\ cachedConnection = FALSE
  /\ intents = <<>>
  /\ entries = {}
  /\ ids = 0
  /\ inflight = EmptyBag
  /\ out = NoResp
  /\ calls = <<>>
  /\ exited = FALSE
  /\ stripeVerified = FALSE
  /\ dbAttempts = IF variant = "retry" \/ ~isVercel THEN 1 ELSE 0

-----------------------------------------------------------------------------
(* Database connection *)

\* a connectDB whose catch block ends the process instead of arming the timer
connectDBExiting ==
  /\ out = NoResp
  /\ ~exited
  /\ variant = "retry"
  /\ dbAttempts > 0
  /\ \/ /\ readyState = 0
        /\ readyState' = 2
        /\ UNCHANGED <<exited, dbAttempts>>
     \/ /\ readyState = 2
        /\ \E ok \in BOOLEAN :
             /\ readyState' = IF ok THEN 1 ELSE 0
             /\ exited' = ~ok
        /\ dbAttempts' = dbAttempts - 1
  /\ UNCHANGED <<stripeVerified, variant, nodeEnv, stripe, webhookSecret,
                 cachedConnection, intents, entries, ids, inflight, out, calls>>

\* retry build: connectDB, called at start-up and again when the timer of a
\* failed call fires.  The call starts mongoose.connect (readyState 2) and
\* is suspended; when the connection attempt ends it has resolved, or it
\* has rejected and the catch block arms the timer for one more call.
connectDB ==
  /\ out = NoResp
  /\ ~exited
  /\ variant = "retry"
  /\ dbAttempts > 0
  /\ \/ /\ readyState = 0
        /\ readyState' = 2
        /\ dbAttempts' = dbAttempts
     \/ /\ readyState = 2
        /\ \E ok \in BOOLEAN :
             /\ readyState' = IF ok THEN 1 ELSE 0
             /\ dbAttempts' = IF ok THEN dbAttempts - 1 ELSE dbAttempts - 1 + 1
  /\ UNCHANGED <<exited, stripeVerified, variant, nodeEnv, stripe, webhookSecret,
                 cachedConnection, intents, entries, ids, inflight, out, calls>>

\* retry build: an initializeStripe call ends.  Without a usable key it has
\* thrown before the handle is assigned; with one, the handle is assigned
\* and stripe.balance.retrieve has resolved or rejected.  A call that fails
\* arms the timer for the next one.
initializeStripe ==
  /\ out = NoResp
  /\ ~exited
  /\ variant = "retry"
  /\ ~stripeVerified
  /\ \E ok \in BOOLEAN : stripeVerified' = (stripe /\ ok)
  /\ UNCHANGED <<exited, dbAttempts, variant, nodeEnv, stripe, webhookSecret,
                 readyState, cachedConnection, intents, entries, ids, inflight,
                 out, calls>>

\* GET /api/health of the retry build: the `stripe` field
HealthStripe == IF stripe THEN "initialized" ELSE "not initialized"

\* retry build: checkMongoDBConnection.  cached build: the connection
\* middleware, which reuses a healthy cached connection and otherwise
\* connects (the attempt succeeds or fails).
DbGate ==
  IF variant = "retry"
  THEN {[pass |-> readyState = 1, rs |-> readyState, cc |-> cachedConnection]}
  ELSE IF cachedConnection /\ readyState = 1
       THEN {[pass |-> TRUE, rs |-> 1, cc |-> TRUE]}
       ELSE {[pass |-> TRUE, rs |-> 1, cc |-> TRUE],
             [pass |-> FALSE, rs |-> 0, cc |-> FALSE]}

\* cached build run locally: the callback of app.listen awaits connectDB()
\* and ends the process when the connection fails
Listen ==
  /\ out = NoResp
  /\ ~exited
  /\ variant = "cached"
  /\ dbAttempts > 0
  /\ \E g \in DbGate :
       /\ readyState' = g.rs
       /\ cachedConnection' = g.cc
       /\ exited' = ~g.pass
  /\ dbAttempts' = dbAttempts - 1
  /\ UNCHANGED <<stripeVerified, variant, nodeEnv, stripe, webhookSecret, intents,
                 entries, ids, inflight, out, calls>>

DbDownResp(op) ==
  IF variant = "retry"
  THEN Resp(op, 503, "Service unavailable: Database not connected")
  ELSE Resp(op, 503, "Service temporarily unavailable")

StripeDownResp(op) ==
  IF variant = "retry"
  THEN Resp(op, 503, "Service unavailable: Stripe not initialized")
  ELSE Resp(op, 500, "Payment processing not available")

-----------------------------------------------------------------------------
(* The payment gateway *)

RequiresPaymentMethod == "requires_payment_method"

Succeeded == "succeeded"

\* the customer completes the payment
PaymentSucceeds(n) ==
  /\ out = NoResp
  /\ n \in 1..Len(intents)
  /\ intents[n].status = RequiresPaymentMethod
  /\ intents' = [intents EXCEPT ![n].status = Succeeded]
  /\ UNCHANGED <<startup, variant, nodeEnv, stripe, webhookSecret, readyState,
                 cachedConnection, entries, ids, inflight, out, calls>>

-----------------------------------------------------------------------------
(* POST /api/create-payment-intent *)

CreateCategoriesIn == {"business", "technology", "bogus", "constructor", Missing}

AllCreateCategoriesIn == Categories \cup {"bogus", "constructor", Missing}

CreateEntryTypesIn == {"text", Missing}

\* the intent charging the entry fee without the surcharge
NewIntentWithoutSurcharge(category, entryType, entryFee, fees) ==
  [status |-> RequiresPaymentMethod,
   amount |-> entryFee * 100,
   metadata |-> [category |-> category, entryType |-> entryType,
                 entryFee |-> toString(entryFee),
                 stripeFee |-> toString(fees.stripeFee)]]

NewIntent(category, entryType, entryFee, fees) ==
  [status |-> RequiresPaymentMethod,
   amount |-> fees.totalAmount * 100,
   metadata |-> [category |-> category, entryType |-> entryType,
                 entryFee |-> toString(entryFee),
                 stripeFee |-> toString(fees.stripeFee)]]

CreatePaymentIntent(category, entryType) ==
  /\ out = NoResp
  /\ ~exited
  /\  \E g \in (IF variant = "cached" THEN DbGate
            ELSE {[pass |-> TRUE, rs |-> readyState, cc |-> cachedConnection]}) :
    /\ readyState' = g.rs
    /\ cachedConnection' = g.cc
    /\ LET entryFee == baseFees(category)
           fees == calculateFees(entryFee)
       IN  IF ~g.pass
           THEN /\ out' = DbDownResp("create-payment-intent")
                /\ calls' = <<>>
                /\ UNCHANGED intents
           ELSE IF ~stripe
           THEN /\ out' = StripeDownResp("create-payment-intent")
                /\ calls' = <<>>
                /\ UNCHANGED intents
           ELSE IF category = Missing \/ entryType = Missing
           THEN /\ out' = Resp("create-payment-intent", 400,
                               "Category and entryType are required")
                /\ calls' = <<>>
                /\ UNCHANGED intents
           ELSE IF entryFee = 0
           THEN /\ out' = Resp("create-payment-intent", 400, "Invalid category")
                /\ calls' = <<>>
                /\ UNCHANGED intents
           ELSE IF fees.totalAmount = NaN
           THEN \* the gateway refuses an amount that is no integer
                /\ out' = Resp("create-payment-intent", 500,
                               "Failed to create payment intent")
                /\ calls' = <<GatewayCreate>>
                /\ UNCHANGED intents
           ELSE /\ Len(intents) < MaxIntents
                /\ calls' = <<GatewayCreate>>
                /\ intents' = Append(intents,
                                     NewIntent(category, entryType, entryFee, fees))
                /\ out' = RespData("create-payment-intent", 200,
                                   [entryId |-> 0, entryFee |-> entryFee,
                                    stripeFee |-> fees.stripeFee,
                                    totalAmount |-> fees.totalAmount])
    /\ UNCHANGED <<startup, variant, nodeEnv, stripe, webhookSecret, entries, ids, inflight>>

-----------------------------------------------------------------------------
(* entrySchema: the validators, as mongoose runs them at save().  A custom *)
(* validator runs only on a defined value; `required` runs always.         *)

\* v.split(/\s+/): the tokens, 0 for an empty token and 1 for a word
SplitWhitespace(v) ==
  IF v.words = 0
  THEN (IF v.lead \/ v.trail THEN <<0, 0>> ELSE <<0>>)
  ELSE (IF v.lead THEN <<0>> ELSE <<>>) \o [i \in 1..v.words |-> 1]
       \o (IF v.trail THEN <<0>> ELSE <<>>)

\* the empty string is falsy
TextTruthy(v) == v.def /\ (v.words > 0 \/ v.lead \/ v.trail)

wordCount(v) ==
  IF TextTruthy(v)
  THEN Len(SelectSeq(SplitWhitespace(v), LAMBDA word : word > 0))
  ELSE 0

textContentValid(doc) ==
  IF doc.entryType = "text"
  THEN LET count == wordCount(doc.textContent)
       IN  count >= MinWords /\ count <= MaxWords
  ELSE TRUE

DataTruthy(v) == v.def /\ Len(v.chars) > 0

FileUrlTruthy(v) == v.def

fileDataValid(doc) ==
  IF doc.entryType = "pitch-deck"
  THEN DataTruthy(doc.fileData) \/ FileUrlTruthy(doc.fileUrl)
  ELSE TRUE

fileUrlValid(doc) ==
  IF doc.entryType = "pitch-deck"
  THEN FileUrlTruthy(doc.fileUrl) \/ (variant = "retry" /\ DataTruthy(doc.fileData))
  ELSE TRUE

UrlTruthy(v) == v.def /\ (v.scheme # "" \/ v.www \/ v.host # "")

RecognizedHosts == {"youtube.com", "youtu.be", "vimeo.com"}

\* the lower-case form of the schemes and hosts that are written with
\* capitals
ToLowerCase(str) ==
  CASE str = "HTTP://" -> "http://"
    [] str = "HTTPS://" -> "https://"
    [] str = "Vimeo.com" -> "vimeo.com"
    [] str = "YouTube.com" -> "youtube.com"
    [] OTHER -> str

\* /^(https?:\/\/)?(www\.)?(youtube\.com|youtu\.be|vimeo\.com)/i: the flag i
\* makes the match blind to case
urlPatternTest(v) ==
  /\ ToLowerCase(v.scheme) \in {"", "http://", "https://"}
  /\ ToLowerCase(v.host) \in RecognizedHosts

videoUrlValid(doc) ==
  IF doc.entryType = "video" /\ UrlTruthy(doc.videoUrl)
  THEN urlPatternTest(doc.videoUrl)
  ELSE doc.entryType # "video" \/ UrlTruthy(doc.videoUrl)

Validate(doc) ==
  /\ doc.userId # Missing
  /\ doc.category \in Categories
  /\ doc.entryType \in EntryTypes
  /\ doc.title >= TitleMinLength /\ doc.title <= TitleMaxLength
  /\ doc.description <= DescriptionMaxLength
  /\ doc.textContent.def => textContentValid(doc)
  /\ (variant = "retry" /\ doc.fileData.def) => fileDataValid(doc)
  /\ doc.fileUrl.def => fileUrlValid(doc)
  /\ doc.videoUrl.def => videoUrlValid(doc)
  /\ doc.entryFee # NaN /\ doc.stripeFee # NaN /\ doc.totalAmount # NaN
  /\ doc.paymentIntentId # NoPid
  /\ doc.paymentStatus \in PaymentStatuses
  /\ doc.status \in Statuses

\* new Entry(data): the schema's defaults.  `seen` is a history field, not
\* a schema path: the intent status the creating handler read from the
\* gateway before it built the document ("none": it read nothing).
NewEntry(data, seen) ==
  [userId |-> data.userId, category |-> data.category,
   entryType |-> data.entryType, title |-> data.title,
   description |-> data.description, textContent |-> data.textContent,
   fileData |-> data.fileData, fileName |-> data.fileName,
   fileType |-> data.fileType, fileSize |-> data.fileSize,
   fileUrl |-> data.fileUrl, videoUrl |-> data.videoUrl,
   entryFee |-> data.entryFee, stripeFee |-> data.stripeFee,
   totalAmount |-> data.totalAmount,
   paymentIntentId |-> data.paymentIntentId,
   paymentStatus |-> data.paymentStatus, status |-> data.status,
   _id |-> 0, createdAt |-> 0, updatedAt |-> 0,
   seen |-> seen]

\* the document as the collection stores it.  Ids are issued in creation
\* order and createdAt is the creation order itself; updatedAt is 0 while it
\* equals createdAt and 1 once a later write has refreshed it
\* (`timestamps: true`).
Stored(doc, id) == [doc EXCEPT !._id = id, !.createdAt = id, !.updatedAt = 0]

NoContent ==
  [textContent |-> NoText, fileData |-> NoData, fileName |-> "", fileType |-> "",
   fileSize |-> 0, fileUrl |-> NoFileUrl, videoUrl |-> NoUrl]

-----------------------------------------------------------------------------
(* POST /api/entries *)

\* buffer.toString('base64'): bytes to sextets 0..63, 64 is the padding '='
RECURSIVE Base64(_)
Base64(buf) ==
  IF Len(buf) = 0 THEN <<>>
  ELSE IF Len(buf) = 1
  THEN <<buf[1] \div 4, (buf[1] % 4) * 16, 64, 64>>
  ELSE IF Len(buf) = 2
  THEN <<buf[1] \div 4, (buf[1] % 4) * 16 + buf[2] \div 16, (buf[2] % 16) * 4, 64>>
  ELSE <<buf[1] \div 4, (buf[1] % 4) * 16 + buf[2] \div 16,
         (buf[2] % 16) * 4 + buf[3] \div 64, buf[3] % 64>>
       \o Base64(SubSeq(buf, 4, Len(buf)))

UserIdsIn == {"u1", "u2", Missing}

SubmitCategoriesIn == {"business", "technology", "bogus"}

SubmitEntryTypesIn == {"text", "pitch-deck"}

FilesIn == {NoFile}

\* the ids a client may quote: none, each id the gateway may issue, and one
\* the gateway does not know
PidsIn == {NoPid} \cup {GwPid(n) : n \in 1..(MaxIntents + 1)}

\* a well-formed text submission by u1 in category business for the first
\* intent of the gateway
BaseBody ==
  [userId |-> "u1", category |-> "business", entryType |-> "text",
   title |-> 20, description |-> UndefLen, textContent |-> PlainText(150),
   videoUrl |-> NoUrl, paymentIntentId |-> GwPid(1)]

\* the submissions considered: the base body and every body that departs
\* from it in a single field
SubmitBodies ==
  {[BaseBody EXCEPT !.userId = v] : v \in UserIdsIn}
  \cup {[BaseBody EXCEPT !.category = v] : v \in SubmitCategoriesIn}
  \cup {[BaseBody EXCEPT !.entryType = v] : v \in SubmitEntryTypesIn}
  \cup {[BaseBody EXCEPT !.paymentIntentId = v] : v \in PidsIn}

\* multer: fileFilter, then the size limit; "" when the upload is accepted
MulterError(file) ==
  IF ~file.present THEN ""
  ELSE IF file.mimetype \notin AllowedMimeTypes
  THEN "Invalid file type. Only PDF and PPT files are allowed."
  ELSE IF file.size > maxSize THEN "File too large"
  ELSE ""

MulterResp(file) ==
  IF variant = "retry" THEN Resp("submit", 400, MulterError(file))
  ELSE IF MulterError(file) = "File too large"
  THEN Resp("submit", 400, "File too large. Maximum size is 25MB.")
  ELSE Resp("submit", 500, "Internal server error")

FileSizeMessage ==
  IF variant = "retry" /\ isVercelServerless
  THEN "File size exceeds 4MB limit." ELSE "File size exceeds 25MB limit."

\* stripe.paymentIntents.retrieve: the intent, when the gateway has it
GatewayHas(pid) == pid.pre = "pi_" /\ pid.n \in 1..Len(intents)

\* the fee fields looked up from the category of the request
FeesFromRequest(paymentIntent, body) ==
  LET entryFee == IF baseFees(body.category) = 0 THEN NaN
                  ELSE baseFees(body.category)
  IN  [entryFee |-> entryFee,
       stripeFee |-> IF entryFee = NaN THEN NaN ELSE CeilFourPercent(entryFee),
       totalAmount |-> IF entryFee = NaN THEN NaN
                       ELSE entryFee + CeilFourPercent(entryFee)]

\* the fee fields with the total taken from the amount charged (in cents)
FeesWithChargedAmount(paymentIntent, body) ==
  [entryFee |-> ParseInt(paymentIntent.metadata.entryFee),
   stripeFee |-> ParseInt(paymentIntent.metadata.stripeFee),
   totalAmount |-> paymentIntent.amount]

\* the fee fields, recomputed from the retrieved intent's metadata
FeesFromIntent(paymentIntent, body) ==
  LET entryFee == ParseInt(paymentIntent.metadata.entryFee)
      stripeFee == ParseInt(paymentIntent.metadata.stripeFee)
  IN  [entryFee |-> entryFee, stripeFee |-> stripeFee,
       totalAmount |-> IF entryFee = NaN \/ stripeFee = NaN THEN NaN
                       ELSE entryFee + stripeFee]

\* the type-specific content fields
ContentFields(body, file) ==
  IF body.entryType = "text"
  THEN [NoContent EXCEPT !.textContent = body.textContent]
  ELSE IF body.entryType = "pitch-deck" /\ file.present
  THEN IF variant = "retry"
       THEN [NoContent EXCEPT
               !.fileData = [def |-> TRUE, chars |-> Base64(file.buffer)],
               !.fileName = file.originalname,
               !.fileType = file.mimetype,
               !.fileSize = file.size,
               !.fileUrl = [def |-> TRUE, pre |-> "/api/file/",
                            pid |-> body.paymentIntentId, name |-> ""]]
       ELSE [NoContent EXCEPT
               !.fileUrl = [def |-> TRUE, pre |-> "temp://", pid |-> NoPid,
                            name |-> file.originalname]]
  ELSE IF body.entryType = "video"
  THEN [NoContent EXCEPT !.videoUrl = body.videoUrl]
  ELSE NoContent

\* a check that lets every retrieved intent through
PaymentCompletedUnchecked(paymentIntent) ==
  paymentIntent.status \in {Succeeded, RequiresPaymentMethod}

\* whether the verified status lets the submission through
PaymentCompleted(paymentIntent) == paymentIntent.status = Succeeded

EntryData(body, file, paymentIntent) ==
  LET fees == FeesFromIntent(paymentIntent, body)
      content == ContentFields(body, file)
  IN  [userId |-> body.userId, category |-> body.category,
       entryType |-> body.entryType, title |-> body.title,
       description |-> IF variant = "cached" /\ body.description = UndefLen
                       THEN 0 ELSE body.description,
       textContent |-> content.textContent, fileData |-> content.fileData,
       fileName |-> content.fileName, fileType |-> content.fileType,
       fileSize |-> content.fileSize, fileUrl |-> content.fileUrl,
       videoUrl |-> content.videoUrl,
       entryFee |-> fees.entryFee, stripeFee |-> fees.stripeFee,
       totalAmount |-> fees.totalAmount,
       paymentIntentId |-> body.paymentIntentId,
       paymentStatus |-> "succeeded", status |-> "submitted"]

\* the test of the required fields with the title left out
RequiredFieldsMissingButTitle(body) ==
  \/ body.userId = Missing \/ body.category = Missing
  \/ body.entryType = Missing \/ body.paymentIntentId = NoPid

\* !userId || !category || !entryType || !title || !paymentIntentId: an
\* absent field and an empty string are both falsy
RequiredFieldsMissing(body) ==
  \/ body.userId = Missing \/ body.category = Missing
  \/ body.entryType = Missing \/ body.title <= 0
  \/ body.paymentIntentId = NoPid

\* the handler up to the gateway call: its answer, or NoResp when it goes on
\* to retrieve the intent
SubmitRejection(body, file, dbPass) ==
  LET gateFail ==
        IF ~dbPass THEN DbDownResp("submit")
        ELSE IF variant = "retry" /\ ~stripe THEN StripeDownResp("submit")
        ELSE NoResp
  IN  IF variant = "cached" /\ ~dbPass THEN DbDownResp("submit")
      ELSE IF MulterError(file) # "" THEN MulterResp(file)
      ELSE IF variant = "retry" /\ gateFail # NoResp THEN gateFail
      ELSE IF RequiredFieldsMissing(body)
      THEN Resp("submit", 400, "Missing required fields")
      ELSE IF body.entryType = "pitch-deck" /\ ~file.present
      THEN Resp("submit", 400, "File required for pitch-deck entries")
      ELSE IF body.entryType = "pitch-deck" /\ file.mimetype \notin AllowedMimeTypes
      THEN Resp("submit", 400, "Invalid file type. Only PDF, PPT, PPTX allowed.")
      ELSE IF body.entryType = "pitch-deck" /\ file.size > maxSize
      THEN Resp("submit", 400, FileSizeMessage)
      ELSE IF variant = "cached" /\ ~stripe THEN StripeDownResp("submit")
      ELSE NoResp

\* the handler up to entry.save(): what it answers, or the document whose
\* insert it awaits
SubmitOutcome(body, file, dbPass) ==
  LET early == SubmitRejection(body, file, dbPass)
  IN  IF early # NoResp THEN [resp |-> early, saving |-> FALSE]
      ELSE IF ~GatewayHas(body.paymentIntentId)
      THEN [resp |-> Resp("submit", 500, "Failed to submit entry"),
            saving |-> FALSE]
      ELSE LET paymentIntent == intents[body.paymentIntentId.n]
               doc == NewEntry(EntryData(body, file, paymentIntent),
                               paymentIntent.status)
           IN  IF ~PaymentCompleted(paymentIntent)
               THEN [resp |-> Resp("submit", 400, "Payment not completed"),
                     saving |-> FALSE]
               ELSE IF ~Validate(doc)
               THEN [resp |-> IF variant = "retry"
                              THEN Resp("submit", 500, "Failed to submit entry")
                              ELSE Resp("submit", 400, "Validation failed"),
                     saving |-> FALSE]
               ELSE [resp |-> NoResp, saving |-> TRUE, doc |-> doc]

\* the calls of a handler that retrieves the intent before its checks
SubmitCallsRetrievingFirst(body, file, dbPass) == <<GatewayRetrieve>>

\* the calls the handler has made when it answers or reaches entry.save():
\* the retrieval, unless an earlier check has answered
SubmitCalls(body, file, dbPass) ==
  IF SubmitRejection(body, file, dbPass) # NoResp THEN <<>> ELSE <<GatewayRetrieve>>

\* the request arrives and runs to its response or to `await entry.save()`;
\* at most `bound` handlers are suspended at a time
SubmitEntryWithin(body, file, bound) ==
  /\ out = NoResp
  /\ ~exited
  /\  \E g \in DbGate :
    LET o == SubmitOutcome(body, file, g.pass)
    IN  /\ readyState' = g.rs
        /\ cachedConnection' = g.cc
        /\ calls' = SubmitCalls(body, file, g.pass)
        /\ IF o.saving
           THEN /\ BagCardinality(inflight) < bound
                /\ inflight' = inflight (+) SetToBag({[pc |-> "save", doc |-> o.doc,
                                                       calls |-> SubmitCalls(body, file, g.pass)]})
                /\ UNCHANGED out
           ELSE /\ out' = o.resp
                /\ UNCHANGED inflight
        /\ UNCHANGED <<startup, variant, nodeEnv, stripe, webhookSecret, intents, entries, ids>>

SubmitEntry(body, file) == SubmitEntryWithin(body, file, MaxInFlight)

\* the insert under a unique index on paymentIntentId: a second document for
\* the same intent is refused and the handler answers with its catch block
SaveEntryUnique(c) ==
  /\ out = NoResp
  /\ ~exited
  /\ BagIn(c, inflight)
  /\ c.pc = "save"
  /\ ids < MaxEntries
  /\ inflight' = inflight (-) SetToBag({c})
  /\ calls' = Append(c.calls, StoreSave)
  /\ IF \E e \in entries : e.paymentIntentId = c.doc.paymentIntentId
     THEN /\ out' = Resp("submit", 500, "Failed to submit entry")
          /\ UNCHANGED <<entries, ids>>
     ELSE /\ ids' = ids + 1
          /\ entries' = entries \cup {Stored(c.doc, ids')}
          /\ out' = RespData("submit", 201, [NoBody EXCEPT !.entryId = ids'])
  /\ UNCHANGED <<startup, variant, nodeEnv, stripe, webhookSecret, readyState,
                 cachedConnection, intents>>

\* the insert reaches the collection and the handler answers 201
SaveEntry(c) ==
  /\ out = NoResp
  /\ ~exited
  /\ BagIn(c, inflight)
  /\ c.pc = "save"
  /\ ids < MaxEntries
  /\ ids' = ids + 1
  /\ entries' = entries \cup {Stored(c.doc, ids')}
  /\ inflight' = inflight (-) SetToBag({c})
  /\ out' = RespData("submit", 201, [NoBody EXCEPT !.entryId = ids'])
  /\ calls' = Append(c.calls, StoreSave)
  /\ UNCHANGED <<startup, variant, nodeEnv, stripe, webhookSecret, readyState,
                 cachedConnection, intents>>

-----------------------------------------------------------------------------
(* GET /api/create-test-entry/:userId, GET /api/create-test-entries/:userId *)

PathUserIds == {"u1", "u2"}

TestDoc(userId, category, entryType, title, description, textContent, videoUrl, entryFee, stripeFee, totalAmount, pid, status) ==
  NewEntry([NoContent EXCEPT !.textContent = textContent, !.videoUrl = videoUrl]
           @@ [userId |-> userId, category |-> category, entryType |-> entryType,
               title |-> title, description |-> description,
               entryFee |-> entryFee, stripeFee |-> stripeFee,
               totalAmount |-> totalAmount, paymentIntentId |-> pid,
               paymentStatus |-> "succeeded", status |-> status],
           "none")

\* the sample text of the build: 11 words in the retry build, 205 in the
\* cached build
SampleTextWords == IF variant = "retry" THEN 11 ELSE 205

SampleDescriptionLength == IF variant = "retry" THEN 82 ELSE 60

TestEntryDoc(userId, t) ==
  TestDoc(userId, "business", "text", 30, SampleDescriptionLength,
          PlainText(SampleTextWords), NoUrl, 49, 2, 51, TestPid(t), "submitted")

TestEntryDocs(userId, t) ==
  <<TestDoc(userId, "business", "text", 28, 52, PlainText(19), NoUrl,
            49, 2, 51, [pre |-> "pi_test_business_", n |-> t], "submitted"),
    TestDoc(userId, "technology", "text", 28, 54, PlainText(20), NoUrl,
            99, 4, 103, [pre |-> "pi_test_tech_", n |-> t], "under-review"),
    TestDoc(userId, "creative", "video", 25, 52, NoText,
            [def |-> TRUE, scheme |-> "https://", www |-> TRUE,
             host |-> "youtube.com"],
            49, 2, 51, [pre |-> "pi_test_creative_", n |-> t], "finalist")>>

\* the cached build registers the route outside production only
TestRouteMounted == variant = "retry" \/ nodeEnv # "production"

NotFoundResp(op) == Resp(op, 404, "Not found")

CreateTestEntry(userId) ==
  /\ out = NoResp
  /\ ~exited
  /\  \E g \in DbGate :
    LET doc == TestEntryDoc(userId, ids + 1)
    IN  /\ readyState' = g.rs
        /\ cachedConnection' = g.cc
        /\ IF ~g.pass
           THEN /\ out' = DbDownResp("create-test-entry")
                /\ calls' = <<>>
                /\ UNCHANGED <<entries, ids>>
           ELSE IF ~TestRouteMounted
           THEN /\ out' = NotFoundResp("create-test-entry")
                /\ calls' = <<>>
                /\ UNCHANGED <<entries, ids>>
           ELSE IF ~Validate(doc)
           THEN /\ out' = Resp("create-test-entry", 500, "Failed to create test entry")
                /\ calls' = <<>>
                /\ UNCHANGED <<entries, ids>>
           ELSE /\ ids < MaxEntries
                /\ calls' = <<StoreSave>>
                /\ ids' = ids + 1
                /\ entries' = entries \cup {Stored(doc, ids')}
                /\ out' = RespData("create-test-entry", 200,
                                   [NoBody EXCEPT !.entryId = ids'])
        /\ UNCHANGED <<startup, variant, nodeEnv, stripe, webhookSecret, intents, inflight>>

\* Entry.insertMany: every document is validated first and none is written
\* when one fails
CreateTestEntries(userId) ==
  /\ out = NoResp
  /\ ~exited
  /\  \E g \in DbGate :
    LET docs == TestEntryDocs(userId, ids + 1)
    IN  /\ readyState' = g.rs
        /\ cachedConnection' = g.cc
        /\ IF ~g.pass
           THEN /\ out' = DbDownResp("create-test-entries")
                /\ calls' = <<>>
                /\ UNCHANGED <<entries, ids>>
           ELSE IF variant = "cached"
           THEN /\ out' = NotFoundResp("create-test-entries")
                /\ calls' = <<>>
                /\ UNCHANGED <<entries, ids>>
           ELSE IF \E i \in 1..Len(docs) : ~Validate(docs[i])
           THEN /\ out' = Resp("create-test-entries", 500,
                               "Failed to create test entries")
                /\ calls' = <<>>
                /\ UNCHANGED <<entries, ids>>
           ELSE /\ ids + Len(docs) <= MaxEntries
                /\ calls' = <<StoreInsertMany>>
                /\ ids' = ids + Len(docs)
                /\ entries' = entries \cup {Stored(docs[i], ids + i) : i \in 1..Len(docs)}
                /\ out' = RespData("create-test-entries", 200, NoBody)
        /\ UNCHANGED <<startup, variant, nodeEnv, stripe, webhookSecret, intents, inflight>>

-----------------------------------------------------------------------------
(* GET /api/entry/:id, GET /api/entries/:userId,                          *)
(* GET /api/file/:paymentIntentId and DELETE /api/entries/:id             *)

\* ids a client may quote: every id the collection may issue; the cached
\* build also defines its answer to a malformed id, written 0
IdsIn == (IF variant = "cached" THEN {0} ELSE {}) \cup 1..MaxEntries

ObjectIdIsValid(id) == id >= 1

findById(id) == {e \in entries : e._id = id}

RetrievalUrl(pid) == [def |-> TRUE, pre |-> "/api/file/", pid |-> pid, name |-> ""]

\* the document with its fileData left in place
TransformedKeepingData(entry) ==
  IF variant = "retry" /\ entry.entryType = "pitch-deck" /\ DataTruthy(entry.fileData)
  THEN [entry EXCEPT !.fileUrl = RetrievalUrl(entry.paymentIntentId)]
  ELSE entry

\* the document as the list and fetch routes send it.  The retry build sets
\* the retrieval url of a pitch deck with stored data and deletes fileData
\* from the lean copy; the cached build sends the document as read.
Transformed(entry) ==
  IF variant = "retry"
  THEN [entry EXCEPT
          !.fileUrl = IF entry.entryType = "pitch-deck" /\ DataTruthy(entry.fileData)
                      THEN RetrievalUrl(entry.paymentIntentId) ELSE @,
          !.fileData = NoData]
  ELSE entry

GetEntry(id) ==
  /\ out = NoResp
  /\ ~exited
  /\  \E g \in DbGate :
    /\ id \in IdsIn
    /\ readyState' = g.rs
    /\ cachedConnection' = g.cc
    /\ out' = IF ~g.pass THEN DbDownResp("get-entry")
              ELSE IF variant = "cached" /\ ~ObjectIdIsValid(id)
              THEN Resp("get-entry", 400, "Invalid entry ID format")
              ELSE IF findById(id) = {}
              THEN Resp("get-entry", 404, "Entry not found")
              ELSE RespList("get-entry", 200,
                            <<Transformed(CHOOSE e \in findById(id) : TRUE)>>)
    /\ calls' = IF out'.code \in {503, 400} THEN <<>> ELSE <<StoreFindById>>
    /\ UNCHANGED <<startup, variant, nodeEnv, stripe, webhookSecret, intents, entries,
                   ids, inflight>>

\* Entry.find({ userId }): the matching documents
find(userId) == {e \in entries : e.userId = userId}

\* .sort({ createdAt: -1 }): the documents, latest creation first
RECURSIVE SortByCreatedAtDesc(_)
SortByCreatedAtDesc(docs) ==
  IF docs = {} THEN <<>>
  ELSE LET latest == CHOOSE e \in docs : \A f \in docs : f.createdAt <= e.createdAt
       IN  <<latest>> \o SortByCreatedAtDesc(docs \ {latest})

\* GET /api/entries/:userId
ListEntries(userId) ==
  /\ out = NoResp
  /\ ~exited
  /\  \E g \in DbGate :
    LET sorted == SortByCreatedAtDesc(find(userId))
    IN  /\ readyState' = g.rs
        /\ cachedConnection' = g.cc
        /\ IF ~g.pass
           THEN out' = DbDownResp("list") /\ calls' = <<>>
           ELSE /\ out' = RespList("list", 200,
                                   [i \in 1..Len(sorted) |-> Transformed(sorted[i])])
                /\ calls' = <<StoreFind>>
        /\ UNCHANGED <<startup, variant, nodeEnv, stripe, webhookSecret, intents, entries,
                       ids, inflight>>

\* a decoder that reads the padding as a sextet of zeros
RECURSIVE FromBase64WholeGroups(_)
FromBase64WholeGroups(chars) ==
  IF Len(chars) < 4 THEN <<>>
  ELSE LET c == [i \in 1..4 |-> IF chars[i] = 64 THEN 0 ELSE chars[i]]
       IN  <<c[1] * 4 + c[2] \div 16, (c[2] % 16) * 16 + c[3] \div 4,
             (c[3] % 4) * 64 + c[4]>>
           \o FromBase64WholeGroups(SubSeq(chars, 5, Len(chars)))

\* Buffer.from(data, 'base64'): sextets back to bytes, up to the padding
RECURSIVE FromBase64(_)
FromBase64(chars) ==
  IF Len(chars) < 4 \/ chars[1] = 64 \/ chars[2] = 64 THEN <<>>
  ELSE <<chars[1] * 4 + chars[2] \div 16>>
       \o (IF chars[3] = 64 THEN <<>>
           ELSE <<(chars[2] % 16) * 16 + chars[3] \div 4>>
                \o (IF chars[4] = 64 THEN <<>>
                    ELSE <<(chars[3] % 4) * 64 + chars[4]>>
                         \o FromBase64(SubSeq(chars, 5, Len(chars)))))

\* the ids a client may quote in the path
PathPidsIn == {GwPid(n) : n \in 1..(MaxIntents + 1)}

\* GET /api/file/:paymentIntentId.  Entry.findOne answers with one of the
\* matching documents; the cached build has no such route and answers with
\* its 404 handler.
GetFile(pid) ==
  /\ out = NoResp
  /\ ~exited
  /\  \E g \in DbGate :
    /\ readyState' = g.rs
    /\ cachedConnection' = g.cc
    /\ IF ~g.pass
       THEN out' = DbDownResp("file") /\ calls' = <<>>
       ELSE IF variant = "cached"
       THEN out' = NotFoundResp("file") /\ calls' = <<>>
       ELSE /\ calls' = <<StoreFindOne>>
            /\ IF {e \in entries : e.paymentIntentId = pid} = {}
               THEN out' = Resp("file", 404, "File not found")
               ELSE \E entry \in {e \in entries : e.paymentIntentId = pid} :
                      out' = IF ~DataTruthy(entry.fileData)
                             THEN Resp("file", 404, "File not found")
                             ELSE RespList("file", 200,
                                    <<[fileType |-> entry.fileType,
                                       fileName |-> entry.fileName,
                                       fileSize |-> entry.fileSize,
                                       fileBuffer |-> FromBase64(entry.fileData.chars)]>>)
    /\ UNCHANGED <<startup, variant, nodeEnv, stripe, webhookSecret, intents, entries,
                   ids, inflight>>

\* the delete handler without its ownership check
DeleteOutcomeAnyUser(id, userId, dbPass) ==
  IF ~dbPass THEN DbDownResp("delete")
  ELSE IF variant = "cached" /\ ~ObjectIdIsValid(id)
  THEN Resp("delete", 400, "Invalid entry ID format")
  ELSE IF variant = "cached" /\ userId = Missing
  THEN Resp("delete", 400, "User ID required")
  ELSE IF {e \in entries : e._id = id} = {}
  THEN Resp("delete", 404, "Entry not found")
  ELSE NoResp

\* the handler up to `await Entry.findByIdAndDelete`: its answer, or NoResp
\* when the ownership check passed
DeleteOutcome(id, userId, dbPass) ==
  IF ~dbPass THEN DbDownResp("delete")
  ELSE IF variant = "cached" /\ ~ObjectIdIsValid(id)
  THEN Resp("delete", 400, "Invalid entry ID format")
  ELSE IF variant = "cached" /\ userId = Missing
  THEN Resp("delete", 400, "User ID required")
  ELSE IF findById(id) = {}
  THEN Resp("delete", 404, "Entry not found")
  ELSE IF \E e \in findById(id) : e.userId # userId
  THEN Resp("delete", 403, "Not authorized to delete this entry")
  ELSE NoResp

DeleteEntry(id, userId) ==
  /\ out = NoResp
  /\ ~exited
  /\  \E g \in DbGate :
    LET r == DeleteOutcome(id, userId, g.pass)
    IN  /\ id \in IdsIn
        /\ readyState' = g.rs
        /\ cachedConnection' = g.cc
        /\ calls' = IF r.code \in {503, 400} THEN <<>> ELSE <<StoreFindById>>
        /\ IF r = NoResp
           THEN /\ BagCardinality(inflight) < MaxInFlight
                /\ inflight' = inflight (+) SetToBag({[pc |-> "delete", id |-> id]})
                /\ UNCHANGED out
           ELSE /\ out' = r
                /\ UNCHANGED inflight
        /\ UNCHANGED <<startup, variant, nodeEnv, stripe, webhookSecret, intents, entries, ids>>

\* Entry.findByIdAndDelete reaches the collection and the handler answers
DeleteApplied(c) ==
  /\ out = NoResp
  /\ ~exited
  /\ BagIn(c, inflight)
  /\ c.pc = "delete"
  /\ entries' = {e \in entries : e._id # c.id}
  /\ inflight' = inflight (-) SetToBag({c})
  /\ out' = RespData("delete", 200, NoBody)
  /\ calls' = <<StoreFindById, StoreFindByIdAndDelete>>
  /\ UNCHANGED <<startup, variant, nodeEnv, stripe, webhookSecret, readyState,
                 cachedConnection, intents, ids>>

-----------------------------------------------------------------------------
(* POST /api/webhook *)

PaymentFailed == "payment_intent.payment_failed"

PaymentSucceededEvt == "payment_intent.succeeded"

EventTypes == {PaymentFailed, PaymentSucceededEvt}

\* the events the gateway may have signed so far and not yet delivered: a
\* payment attempt on an intent can fail at any time before the payment
\* succeeds, leaves the status as it is, and its event can arrive late
SignedEvents ==
  {[type |-> PaymentFailed, pid |-> GwPid(n)] : n \in 1..Len(intents)}
  \cup {[type |-> PaymentSucceededEvt, pid |-> GwPid(n)] :
          n \in {k \in 1..Len(intents) : intents[k].status = Succeeded}}

\* a payload anyone can send, with a signature the secret does not verify
ForgedEvents == [type : EventTypes, pid : {GwPid(n) : n \in 1..MaxIntents}]

\* Entry.findOneAndUpdate({paymentIntentId}, {paymentStatus: 'failed'}): one
\* matching document, if any, is updated and its updatedAt refreshed
Matching(pid) == {e \in entries : e.paymentIntentId = pid}

UpdatedDoc(e) == [e EXCEPT !.paymentStatus = "failed", !.updatedAt = 1]

findOneAndUpdate(pid) ==
  IF Matching(pid) = {}
  THEN UNCHANGED entries
  ELSE \E e \in Matching(pid) : entries' = (entries \ {e}) \cup {UpdatedDoc(e)}

\* whether req.body still is the raw payload when the handler runs.  The
\* retry build registers express.json() for every route and express.raw()
\* on the webhook route after it, so the payload has been parsed and
\* replaced by an object; the cached build registers express.raw() on the
\* webhook path first.
RawBodyKept == variant = "cached"

\* the payload parsed as an event without a look at its signature
SignatureUnchecked(sigOk) == RawBodyKept

\* stripe.webhooks.constructEvent: the signature is computed over the raw
\* payload
SignatureVerified(sigOk) == sigOk /\ RawBodyKept

\* the handler up to the verified event: its answer, or NoResp when the
\* event is accepted
WebhookReject(sigOk, dbPass) ==
  IF variant = "retry"
  THEN (IF ~webhookSecret \/ ~stripe \/ ~SignatureVerified(sigOk)
        THEN Resp("webhook", 400, "Webhook error") ELSE NoResp)
  ELSE IF ~dbPass THEN DbDownResp("webhook")
  ELSE IF ~stripe \/ ~webhookSecret
  THEN Resp("webhook", 500, "Webhook not configured")
  ELSE IF ~SignatureVerified(sigOk) THEN Resp("webhook", 400, "Webhook Error")
  ELSE NoResp

Received == Resp("webhook", 200, "")

\* a webhook handler whose rejected update nobody catches: the rejection
\* ends the process
WebhookUncaught(sigOk, event) ==
  /\ out = NoResp
  /\ ~exited
  /\ event \in (IF sigOk THEN SignedEvents ELSE ForgedEvents)
  /\ exited' = TRUE
  /\ UNCHANGED <<stripeVerified, dbAttempts, variant, nodeEnv, stripe, webhookSecret,
                 readyState, cachedConnection, intents, entries, ids, inflight,
                 out, calls>>

Webhook(sigOk, event) ==
  /\ out = NoResp
  /\ ~exited
  /\  \E g \in (IF variant = "cached" THEN DbGate
            ELSE {[pass |-> TRUE, rs |-> readyState, cc |-> cachedConnection]}) :
    LET r == WebhookReject(sigOk, g.pass)
    IN  /\ event \in (IF sigOk THEN SignedEvents ELSE ForgedEvents)
        /\ readyState' = g.rs
        /\ cachedConnection' = g.cc
        /\ calls' = IF r = NoResp /\ event.type = PaymentFailed
                     THEN <<StoreFindOneAndUpdate>> ELSE <<>>
        /\ IF r # NoResp
           THEN out' = r /\ UNCHANGED <<entries, inflight>>
           ELSE IF event.type # PaymentFailed
           THEN out' = Received /\ UNCHANGED <<entries, inflight>>
           ELSE IF variant = "retry"
           THEN \* the update is started and not awaited (not reached: no
                \* payload verifies in this build)
                /\ BagCardinality(inflight) < MaxInFlight
                /\ inflight' = inflight (+) SetToBag({[pc |-> "update",
                                                       pid |-> event.pid]})
                /\ out' = Received
                /\ UNCHANGED entries
           ELSE \* the update is awaited inside try: it is applied, or it
                \* rejects and the catch block answers
                \/ /\ findOneAndUpdate(event.pid)
                   /\ out' = Received
                   /\ UNCHANGED inflight
                \/ /\ out' = Resp("webhook", 500, "Failed to process webhook")
                   /\ UNCHANGED <<entries, inflight>>
        /\ UNCHANGED <<startup, variant, nodeEnv, stripe, webhookSecret, intents, ids>>

-----------------------------------------------------------------------------

Next ==
  \/ ResponseSent
  \/ connectDB
  \/ \E n \in 1..MaxIntents : PaymentSucceeds(n)
  \/ \E category \in CreateCategoriesIn, entryType \in CreateEntryTypesIn :
       CreatePaymentIntent(category, entryType)
  \/ \E body \in SubmitBodies, file \in FilesIn : SubmitEntry(body, file)
  \/ \E c \in BagToSet(inflight) : SaveEntry(c)
  \/ \E userId \in PathUserIds : CreateTestEntry(userId)
  \/ \E userId \in PathUserIds : CreateTestEntries(userId)
  \/ \E userId \in PathUserIds : ListEntries(userId)
  \/ \E id \in 0..MaxEntries : GetEntry(id)
  \/ \E pid \in PathPidsIn : GetFile(pid)
  \/ \E id \in 0..MaxEntries, userId \in UserIdsIn : DeleteEntry(id, userId)
  \/ \E c \in BagToSet(inflight) : DeleteApplied(c)
  \/ \E sigOk \in BOOLEAN, event \in ForgedEvents \cup SignedEvents :
       Webhook(sigOk, event)

Spec == Init /\ [][Next]_vars

\* the content rules: submissions of every entry type, with texts, files,
\* video urls, titles and descriptions on both sides of each limit, all for
\* the first intent of the gateway
EmptyText == [def |-> TRUE, lead |-> FALSE, words |-> 0, trail |-> FALSE]

BlankText == [def |-> TRUE, lead |-> TRUE, words |-> 0, trail |-> FALSE]

PaddedText(n) == [def |-> TRUE, lead |-> TRUE, words |-> n, trail |-> TRUE]

ContentTextsIn ==
  {NoText, EmptyText, BlankText, PlainText(MinWords - 1), PlainText(MinWords),
   PaddedText(MinWords - 1), PaddedText(MinWords), PlainText(MaxWords),
   PlainText(MaxWords + 1)}

Upload(mimetype, size, originalname, buffer) ==
  [present |-> TRUE, mimetype |-> mimetype, size |-> size,
   originalname |-> originalname, buffer |-> buffer]

\* uploads: the bytes are carried for the small files; a file beyond the size
\* limit is refused before its bytes are read
Pdf == Upload("application/pdf", 4, "deck.pdf", <<37, 80, 68, 70>>)

Pptx ==
  Upload("application/vnd.openxmlformats-officedocument.presentationml.presentation",
         2, "deck.pptx", <<80, 75>>)

Png == Upload("image/png", 1, "shot.png", <<137>>)

HugePng == Upload("image/png", 25 * MB + 1, "shot.png", <<>>)

HugePdf == Upload("application/pdf", 25 * MB + 1, "deck.pdf", <<>>)

\* a pdf of `size` bytes, of which the model carries the first four
SizedPdf(size) == Upload("application/pdf", size, "deck.pdf", <<37, 80, 68, 70>>)

ContentFilesIn ==
  {NoFile, Pdf, Pptx, Png, HugePng, HugePdf, SizedPdf(4 * MB), SizedPdf(4 * MB + 1),
   SizedPdf(25 * MB)}

Url(scheme, www, host) == [def |-> TRUE, scheme |-> scheme, www |-> www, host |-> host]

EmptyUrl == [def |-> TRUE, scheme |-> "", www |-> FALSE, host |-> ""]

ContentUrlsIn ==
  {NoUrl, EmptyUrl, Url("https://", TRUE, "youtube.com"), Url("", FALSE, "youtu.be"),
   Url("HTTP://", FALSE, "Vimeo.com"), Url("ftp://", FALSE, "youtube.com"),
   Url("https://", FALSE, "example.com")}

TextBody == BaseBody

DeckBody == [BaseBody EXCEPT !.entryType = "pitch-deck", !.textContent = NoText]

VideoBody == [BaseBody EXCEPT !.entryType = "video", !.textContent = NoText]

ContentBodies ==
  {[TextBody EXCEPT !.textContent = v] : v \in ContentTextsIn}
  \cup {[VideoBody EXCEPT !.videoUrl = v] : v \in ContentUrlsIn}
  \cup {[TextBody EXCEPT !.title = v] :
          v \in {UndefLen, 0, TitleMinLength - 1, TitleMinLength, TitleMaxLength,
                 TitleMaxLength + 1}}
  \cup {[TextBody EXCEPT !.description = v] :
          v \in {DescriptionMaxLength, DescriptionMaxLength + 1}}
  \cup {[TextBody EXCEPT !.userId = v] : v \in {"u2", Missing}}
  \cup {[TextBody EXCEPT !.category = v] : v \in {"bogus", Missing}}
  \cup {[TextBody EXCEPT !.entryType = v] : v \in {"audio", Missing}}
  \cup {[TextBody EXCEPT !.paymentIntentId = NoPid]}

\* each body without a file, the pitch deck with each file, and a text and a
\* video submission that carry a file all the same
ContentRequests ==
  {<<body, NoFile>> : body \in ContentBodies}
  \cup {<<DeckBody, file>> : file \in ContentFilesIn}
  \cup {<<[DeckBody EXCEPT !.title = UndefLen], file>> : file \in {NoFile, Png}}
  \cup {<<TextBody, file>> : file \in {Pdf, Png}}
  \cup {<<[VideoBody EXCEPT !.videoUrl = Url("", TRUE, "vimeo.com")], Pdf>>}

NextContent ==
  \/ ResponseSent
  \/ connectDB
  \/ \E n \in 1..MaxIntents : PaymentSucceeds(n)
  \/ Len(intents) = 0 /\ CreatePaymentIntent("business", "text")
  \/ \E request \in ContentRequests :
       /\ SubmitEntry(request[1], request[2])
       /\ ids + BagCardinality(inflight') <= MaxContentEntries
  \/ \E c \in BagToSet(inflight) : SaveEntry(c)
  \/ \E pid \in PathPidsIn : GetFile(pid)

\* A response that is ready leaves the server, and a handler suspended at
\* `await entry.save()` is resumed when the insert has been made, whatever
\* other requests the event loop serves in between.
SpecContent ==
  /\ Init /\ [][NextContent]_vars
  /\ WF_vars(ResponseSent)
  /\ SF_vars(\E c \in BagToSet(inflight) : SaveEntry(c))

\* submissions that overlap: well-formed text submissions by two users for
\* the intents of the gateway, up to MaxRaceInFlight of them suspended at
\* their insert at a time
RaceBodies ==
  {[BaseBody EXCEPT !.userId = v] : v \in {"u1", "u2"}}
  \cup {[BaseBody EXCEPT !.paymentIntentId = GwPid(n)] : n \in 1..MaxIntents}

NextRace ==
  \/ ResponseSent
  \/ connectDB
  \/ \E n \in 1..MaxIntents : PaymentSucceeds(n)
  \/ CreatePaymentIntent("business", "text")
  \/ \E body \in RaceBodies : SubmitEntryWithin(body, NoFile, MaxRaceInFlight)
  \/ \E c \in BagToSet(inflight) : SaveEntry(c)

SpecRace == Init /\ [][NextRace]_vars

\* reading back: text and pitch-deck submissions of two users for the
\* intents of the gateway, listed, fetched and downloaded
ListingRequests ==
  {<<[TextBody EXCEPT !.userId = u, !.paymentIntentId = GwPid(n)], NoFile>> :
     u \in PathUserIds, n \in 1..MaxIntents}
  \cup {<<[DeckBody EXCEPT !.userId = u, !.paymentIntentId = GwPid(n)], file>> :
          u \in PathUserIds, n \in 1..MaxIntents, file \in {Pdf, Pptx}}

NextListing ==
  \/ ResponseSent
  \/ connectDB
  \/ \E n \in 1..MaxIntents : PaymentSucceeds(n)
  \/ CreatePaymentIntent("business", "text")
  \/ \E request \in ListingRequests : SubmitEntry(request[1], request[2])
  \/ \E c \in BagToSet(inflight) : SaveEntry(c)
  \/ \E userId \in PathUserIds : ListEntries(userId)
  \/ \E id \in 0..MaxEntries : GetEntry(id)
  \/ \E pid \in PathPidsIn : GetFile(pid)

SpecListing == Init /\ [][NextListing]_vars

\* The cached build's connection middleware and connectDB, step by step, for
\* requests of GET /api/entries/u1 that overlap.  A continuation is a request
\* suspended in connectDB at `await mongoose.disconnect()` or at `await
\* mongoose.connect()`, or in its handler at the query; `answered` says that
\* the 8 s timer of the middleware has answered the request already, after
\* which connectDB runs on without it.  mongoose 5 (the options of the
\* connect call are its own): connect on a closed connection starts one
\* attempt, which later calls join; disconnect on a connecting connection
\* waits for it to open and closes it then.
Awaiting(pc, r) == [pc |-> pc, req |-> r, answered |-> FALSE]

AtPc(pc) == {c \in BagToSet(inflight) : c.pc = pc}

\* the middleware runs connectDB up to its first await; with a healthy cached
\* connection it calls next() and the handler issues its query
ConnectMiddleware(r) ==
  /\ out = NoResp
  /\ ~exited
  /\ variant = "cached"
  /\ \A c \in BagToSet(inflight) : c.req # r
  /\ IF cachedConnection /\ readyState = 1
     THEN /\ inflight' = inflight (+) SetToBag({Awaiting("handler", r)})
          /\ UNCHANGED readyState
     ELSE IF readyState # 0
     THEN /\ inflight' = inflight (+) SetToBag({Awaiting("disconnect", r)})
          /\ readyState' = IF readyState = 1 THEN 3 ELSE readyState
     ELSE /\ inflight' = inflight (+) SetToBag({Awaiting("connect", r)})
          /\ readyState' = 2
  /\ UNCHANGED <<startup, variant, nodeEnv, stripe, webhookSecret, cachedConnection,
                 intents, entries, ids, out, calls>>

\* the attempt of mongoose.connect ends.  Opened: a disconnect that waited
\* for it starts closing at once; every connectDB at the connect call sets
\* cachedConnection and its middleware, unless timed out, calls next().
\* Failed: every such connectDB clears cachedConnection and its middleware,
\* unless timed out, answers 503.
ConnectSettles ==
  /\ out = NoResp
  /\ ~exited
  /\ variant = "cached"
  /\ readyState = 2
  /\ \E ok \in BOOLEAN :
       /\ readyState' = IF ~ok THEN 0 ELSE IF AtPc("disconnect") # {} THEN 3 ELSE 1
       /\ cachedConnection' = IF AtPc("connect") = {} THEN cachedConnection ELSE ok
       /\ inflight' = SetToBag((BagToSet(inflight) \ AtPc("connect"))
                         \cup (IF ok
                               THEN {Awaiting("handler", c.req) :
                                       c \in {d \in AtPc("connect") : ~d.answered}}
                               ELSE {}))
       /\ out' = IF ~ok /\ \E c \in AtPc("connect") : ~c.answered
                 THEN DbDownResp("list") ELSE out
  /\ UNCHANGED <<startup, variant, nodeEnv, stripe, webhookSecret, intents, entries,
                 ids, calls>>

\* the connection has closed: every connectDB at the disconnect call goes on
\* to mongoose.connect
ConnectionCloses ==
  /\ out = NoResp
  /\ ~exited
  /\ variant = "cached"
  /\ readyState = 3
  /\ readyState' = IF AtPc("disconnect") = {} THEN 0 ELSE 2
  /\ inflight' = SetToBag((BagToSet(inflight) \ AtPc("disconnect"))
                    \cup {[c EXCEPT !.pc = "connect"] : c \in AtPc("disconnect")})
  /\ UNCHANGED <<startup, variant, nodeEnv, stripe, webhookSecret, cachedConnection,
                 intents, entries, ids, out, calls>>

\* the 8 s timer of the middleware wins the race: 503, and connectDB runs on
ConnectTimeout(c) ==
  /\ out = NoResp
  /\ ~exited
  /\ variant = "cached"
  /\ BagIn(c, inflight)
  /\ c.pc \in {"disconnect", "connect"}
  /\ ~c.answered
  /\ inflight' = (inflight (-) SetToBag({c})) (+) SetToBag({[c EXCEPT !.answered = TRUE]})
  /\ out' = DbDownResp("list")
  /\ UNCHANGED <<startup, variant, nodeEnv, stripe, webhookSecret, readyState,
                 cachedConnection, intents, entries, ids, calls>>

\* the query of the list handler ends: with bufferCommands off it needs the
\* connection to be up
ListHandler(c) ==
  /\ out = NoResp
  /\ ~exited
  /\ variant = "cached"
  /\ BagIn(c, inflight)
  /\ c.pc = "handler"
  /\ inflight' = inflight (-) SetToBag({c})
  /\ calls' = <<StoreFind>>
  /\ out' = IF readyState = 1
            THEN RespList("list", 200,
                          [i \in 1..Len(SortByCreatedAtDesc(find("u1"))) |->
                             Transformed(SortByCreatedAtDesc(find("u1"))[i])])
            ELSE Resp("list", 500, "Failed to fetch entries")
  /\ UNCHANGED <<startup, variant, nodeEnv, stripe, webhookSecret, readyState,
                 cachedConnection, intents, entries, ids>>

NextConnect ==
  \/ ResponseSent
  \/ \E r \in 1..MaxConnectRequests : ConnectMiddleware(r)
  \/ ConnectSettles
  \/ ConnectionCloses
  \/ \E c \in BagToSet(inflight) : ConnectTimeout(c)
  \/ \E c \in BagToSet(inflight) : ListHandler(c)

SpecConnect == Init /\ [][NextConnect]_vars

\* start-up and service together: the start-up calls of both builds run
\* while requests of every route arrive
NextStartup ==
  \/ ResponseSent
  \/ connectDB
  \/ initializeStripe
  \/ Listen
  \/ \E n \in 1..MaxIntents : ~exited /\ PaymentSucceeds(n)
  \/ \E category \in {"business", Missing} : CreatePaymentIntent(category, "text")
  \/ \E pid \in {GwPid(1), GwPid(2)} :
       SubmitEntry([BaseBody EXCEPT !.paymentIntentId = pid], NoFile)
  \/ \E c \in BagToSet(inflight) : SaveEntry(c)
  \/ CreateTestEntry("u1")
  \/ CreateTestEntries("u1")
  \/ ListEntries("u1")
  \/ \E id \in 0..1 : GetEntry(id)
  \/ GetFile(GwPid(1))
  \/ \E userId \in PathUserIds : DeleteEntry(1, userId)
  \/ \E c \in BagToSet(inflight) : DeleteApplied(c)
  \/ \E sigOk \in BOOLEAN, event \in ForgedEvents \cup SignedEvents :
       Webhook(sigOk, event)

SpecStartup == Init /\ [][NextStartup]_vars

\* A response leaves the server, and the event loop runs connectDB, at
\* start-up, when its connection attempt has ended and when the timer of a
\* failed call fires, between the handlers of the requests.
SpecStartupFair == SpecStartup /\ WF_vars(ResponseSent) /\ SF_vars(connectDB)

\* the fee calculation alone, over every category of the fee table
NextFees ==
  \/ ResponseSent
  \/ \E n \in 1..MaxIntents : PaymentSucceeds(n)
  \/ \E category \in AllCreateCategoriesIn, entryType \in CreateEntryTypesIn :
       CreatePaymentIntent(category, entryType)

SpecFees == Init /\ [][NextFees]_vars

-----------------------------------------------------------------------------
(* Properties *)

\* an entry built by POST /api/entries (the test routes read no intent)
FromSubmission(e) == e.seen # "none"

\* the connection check of the step let the request through (both builds
\* leave readyState at 1 exactly then)
DbPassed == readyState' = 1

\* C1: in every reachable state, every stored entry was inserted by an
\* operation that had first retrieved the entry's payment intent from the
\* gateway and seen status 'succeeded'.
C1_InsertedAfterVerification == \A e \in entries : e.seen = Succeeded

\* C2: a submission whose payment intent is retrieved with a status other
\* than 'succeeded' is answered 400 'Payment not completed' and stores
\* nothing.  Whenever the quoted intent has not succeeded the request
\* changes no entry and starts no insert; whenever in addition the handler
\* reaches the retrieval (no earlier check has answered), the answer is
\* 400 'Payment not completed'.
C2_NotCompletedRejected ==
  [][\A body \in SubmitBodies, file \in FilesIn :
       (/\ GatewayHas(body.paymentIntentId)
        /\ intents[body.paymentIntentId.n].status # Succeeded
        /\ SubmitEntry(body, file))
       => /\ entries' = entries
          /\ inflight' = inflight
          /\ SubmitRejection(body, file, DbPassed) = NoResp
               => out' = Resp("submit", 400, "Payment not completed")]_vars

\* a submission has just been answered 400 'Payment not completed' for an
\* intent that awaits its payment
C2_Witness ==
  /\ out = Resp("submit", 400, "Payment not completed")
  /\ \E n \in 1..Len(intents) : intents[n].status = RequiresPaymentMethod

\* C3: for every entry persisted by the submission workflow, entryFee and
\* stripeFee are the numbers written in the metadata of the intent it
\* references and totalAmount is their sum; entries that reference the same
\* intent carry identical entryFee, stripeFee and totalAmount, whatever the
\* other request fields were.
C3_FeesFromIntentMetadata ==
  /\ \A e \in entries :
       FromSubmission(e) =>
         LET metadata == intents[e.paymentIntentId.n].metadata
         IN  /\ toString(e.entryFee) = metadata.entryFee
             /\ toString(e.stripeFee) = metadata.stripeFee
             /\ e.totalAmount = e.entryFee + e.stripeFee
  /\ \A e1, e2 \in entries :
       (/\ FromSubmission(e1) /\ FromSubmission(e2)
        /\ e1.paymentIntentId = e2.paymentIntentId)
       => /\ e1.entryFee = e2.entryFee
          /\ e1.stripeFee = e2.stripeFee
          /\ e1.totalAmount = e2.totalAmount

\* two stored submissions reference one intent and differ in the category
\* the client sent
C3_Witness ==
  \E e1, e2 \in entries :
    /\ FromSubmission(e1) /\ FromSubmission(e2)
    /\ e1.paymentIntentId = e2.paymentIntentId
    /\ e1.category # e2.category

\* the fee table as the claim states it
StatedFee(category) ==
  CASE category = "business" -> 49
    [] category = "creative" -> 49
    [] category = "technology" -> 99
    [] category = "social-impact" -> 49

\* C4: for every category of the fee table, create-payment-intent returns
\* the table's entryFee, stripeFee = ceil(entryFee * 0.04) (the least whole
\* number not below four hundredths of the fee) and totalAmount = entryFee +
\* stripeFee; fee 49 gives 2 and 51, fee 99 gives 4 and 103.
C4_FeeTable ==
  (out.op = "create-payment-intent" /\ out.code = 200) =>
    LET category == intents[Len(intents)].metadata.category
        d == out.data
    IN  /\ category \in Categories
        /\ d.entryFee = StatedFee(category)
        /\ d.stripeFee * 100 >= d.entryFee * 4
        /\ (d.stripeFee - 1) * 100 < d.entryFee * 4
        /\ d.totalAmount = d.entryFee + d.stripeFee
        /\ d.entryFee = 49 => (d.stripeFee = 2 /\ d.totalAmount = 51)
        /\ d.entryFee = 99 => (d.stripeFee = 4 /\ d.totalAmount = 103)

\* an intent for the one category with fee 99 has just been created, after
\* one for a category with fee 49
C4_Witness ==
  /\ out.op = "create-payment-intent" /\ out.code = 200
  /\ Len(intents) = 2
  /\ intents[1].metadata.category = "social-impact"
  /\ intents[2].metadata.category = "technology"
  /\ out.data.totalAmount = 103

\* C5: a create-payment-intent request with a missing category, a missing
\* entryType or a category outside the fee table creates no payment intent,
\* and is answered 400 (unless a dependency check has answered first: the
\* database or the gateway client is down).
C5_BadRequestCreatesNoIntent ==
  [][\A category \in AllCreateCategoriesIn, entryType \in CreateEntryTypesIn :
       (/\ CreatePaymentIntent(category, entryType)
        /\ (category = Missing \/ entryType = Missing
            \/ category \notin Categories))
       => /\ intents' = intents
          /\ out' \notin {DbDownResp("create-payment-intent"),
                          StripeDownResp("create-payment-intent")}
               => out'.code = 400]_vars

\* C6: in every reachable state every stored entry has totalAmount =
\* entryFee + stripeFee, whichever operation created it and whatever webhook
\* or delete followed.
C6_TotalIsSum ==
  \A e \in entries : e.totalAmount = e.entryFee + e.stripeFee

\* the store holds a submitted entry that a webhook has marked failed next
\* to an entry of the test route
C6_Witness ==
  /\ \E e \in entries : FromSubmission(e) /\ e.paymentStatus = "failed"
  /\ \E e \in entries : ~FromSubmission(e)

\* C7: the paymentStatus of a stored entry never changes from 'succeeded' to
\* 'failed' and never from 'failed' to 'succeeded'.
C7_StatusNeverReversed ==
  [][\A e \in entries : \A f \in entries' :
       f._id = e._id =>
         /\ ~(e.paymentStatus = "succeeded" /\ f.paymentStatus = "failed")
         /\ ~(e.paymentStatus = "failed" /\ f.paymentStatus = "succeeded")]_vars

C9_BadSignatureRejected ==
  [][\A event \in ForgedEvents :
       Webhook(FALSE, event) =>
         /\ entries' = entries
         /\ inflight' = inflight
         /\ (\/ variant = "retry"
             \/ (stripe /\ webhookSecret /\ out' # DbDownResp("webhook")))
              => out'.code = 400]_vars

\* a delivery has just been answered 400 by a configured server whose store
\* holds a paid entry for a gateway intent
C9_Witness ==
  /\ out.op = "webhook" /\ out.code = 400
  /\ stripe /\ webhookSecret
  /\ \E e \in entries : e.paymentIntentId.pre = "pi_" /\ e.paymentStatus = "succeeded"

\* C10: a correctly signed payment_failed event for an intent that an entry
\* references sets that entry's paymentStatus to 'failed'.  Stated for the
\* delivery itself: when the server is configured and the database
\* reachable, after the handler has run an entry of that intent is 'failed'
\* or the update that sets it is under way.
C10_FailedEventMarksEntry ==
  [][\A event \in SignedEvents :
       (/\ event.type = PaymentFailed
        /\ Matching(event.pid) # {}
        /\ stripe /\ webhookSecret
        /\ Webhook(TRUE, event)
        /\ out' # DbDownResp("webhook"))
       => \/ \E e \in entries' : /\ e.paymentIntentId = event.pid
                                 /\ e.paymentStatus = "failed"
          \/ \E c \in BagToSet(inflight') : c = [pc |-> "update", pid |-> event.pid]]_vars

\* the word count in the claim's sense: the words of the text, none for an
\* absent or empty one
StatedWordCount(text) == IF text.def THEN text.words ELSE 0

\* C11: every stored submission of entry type 'text' has a body of 100 to
\* 2000 words: a body of 99 or of 2001 words, and an absent or empty body (0
\* words), is never stored.
C11_TextWordCount ==
  \A e \in entries :
    (FromSubmission(e) /\ e.entryType = "text")
    => /\ StatedWordCount(e.textContent) >= MinWords
       /\ StatedWordCount(e.textContent) <= MaxWords

\* the answer of a dependency check: the database or the gateway client is
\* not available
DependencyDown(resp) ==
  \E op \in {"submit", "create-payment-intent", "list", "get-entry", "delete",
             "file", "webhook"} :
    resp \in {DbDownResp(op), StripeDownResp(op)}

\* C12: a 'pitch-deck' submission with no file, or with a file whose declared
\* MIME type is not PDF, PPT or PPTX (whatever its size), stores nothing,
\* starts no insert, is rejected before any retrieval from the gateway, and
\* is answered 400 (unless a dependency check has answered first).
C12_DeckWithoutValidFileRejected ==
  [][\A request \in ContentRequests :
       LET body == request[1]
           file == request[2]
       IN  (/\ body.entryType = "pitch-deck"
            /\ (~file.present \/ file.mimetype \notin AllowedMimeTypes)
            /\ SubmitEntry(body, file))
           => /\ entries' = entries
              /\ inflight' = inflight
              /\ GatewayRetrieve \notin {calls'[i] : i \in 1..Len(calls')}
              /\ ~DependencyDown(out') => out'.code = 400]_vars

\* C13: every stored submission of entry type 'video' has a videoUrl that is
\* present, not empty, and matches the recognized-host pattern; a video
\* submission without one is never stored.
C13_VideoUrlRecognized ==
  \A e \in entries :
    (FromSubmission(e) /\ e.entryType = "video")
    => UrlTruthy(e.videoUrl) /\ urlPatternTest(e.videoUrl)

\* the calls made by the request last served
CallsMade == {calls[i] : i \in 1..Len(calls)}

\* C14: a submission that lacks userId, category, entryType, title or
\* paymentIntentId changes no entry, starts no insert and makes no retrieval
\* from the gateway; once the dependency checks and the upload middleware
\* have let the request through, it is answered 400 'Missing required
\* fields'.
C14_MissingFieldsRejected ==
  [][\A request \in ContentRequests :
       LET body == request[1]
           file == request[2]
       IN  (/\ (\/ body.userId = Missing \/ body.category = Missing
                \/ body.entryType = Missing \/ body.title <= 0
                \/ body.paymentIntentId = NoPid)
            /\ SubmitEntry(body, file))
           => /\ entries' = entries
              /\ inflight' = inflight
              /\ calls' = <<>>
              /\ (~DependencyDown(out') /\ MulterError(file) = "")
                   => out' = Resp("submit", 400, "Missing required fields")]_vars

\* a submission has just been answered 400 'Missing required fields' without
\* any call, while the intent it would have quoted is paid and the store
\* already holds an entry
C14_Witness ==
  /\ out = Resp("submit", 400, "Missing required fields")
  /\ CallsMade = {}
  /\ \E n \in 1..Len(intents) : intents[n].status = Succeeded
  /\ entries # {}

\* the request has every required field and, for a pitch deck, a file of an
\* allowed type within the size limit
FieldsAndFileValid(body, file) ==
  /\ body.userId # Missing /\ body.category # Missing /\ body.entryType # Missing
  /\ body.title > 0 /\ body.paymentIntentId # NoPid
  /\ body.entryType = "pitch-deck"
       => /\ file.present
          /\ file.mimetype \in AllowedMimeTypes
          /\ file.size <= maxSize

\* a handler is suspended at its insert
Suspended == \E c \in BagToSet(inflight) : c.pc = "save"

\* C15: a submission runs Received, Validated, PaymentVerified, Persisted in
\* that order or ends rejected.  The gateway is asked only for a request whose
\* required fields and file have passed their checks; an insert is started
\* only after the retrieval has shown a paid intent, and is the last call of
\* its request; a request that is answered at once (rejected) writes nothing
\* and starts nothing; a request either answers at once or suspends one
\* continuation, which answers 201 when it is resumed and is then gone; and
\* every suspended request is answered in the end.
C15_SubmissionOrder ==
  /\ [][/\ \A request \in ContentRequests :
            LET body == request[1]
                file == request[2]
            IN  SubmitEntry(body, file) =>
                  /\ entries' = entries
                  /\ GatewayRetrieve \in {calls'[i] : i \in 1..Len(calls')}
                       => FieldsAndFileValid(body, file)
                  /\ {calls'[i] : i \in 1..Len(calls')} \cap (StoreReads \cup StoreWrites) = {}
                  /\ \/ /\ out' # NoResp
                        /\ out'.code # 201
                        /\ inflight' = inflight
                     \/ /\ out' = NoResp
                        /\ calls' = <<GatewayRetrieve>>
                        /\ GatewayHas(body.paymentIntentId)
                        /\ intents[body.paymentIntentId.n].status = Succeeded
                        /\ \E doc \in {c.doc : c \in BagToSet(inflight')} :
                             inflight' = inflight (+) SetToBag({[pc |-> "save", doc |-> doc,
                                                                 calls |-> calls']})
        /\ \A c \in BagToSet(inflight) :
            SaveEntry(c) =>
              /\ calls' = <<GatewayRetrieve, StoreSave>>
              /\ out'.op = "submit" /\ out'.code = 201
              /\ inflight' = inflight (-) SetToBag({c})
              /\ entries' = entries \cup {Stored(c.doc, out'.data.entryId)}
              /\ Cardinality(entries') = Cardinality(entries) + 1]_vars
  /\ Suspended ~> (out.op = "submit" /\ out.code = 201)

\* a pitch deck has run through every stage: its insert has just been
\* answered 201 after the retrieval
C15_Witness ==
  /\ out.op = "submit" /\ out.code = 201
  /\ calls = <<GatewayRetrieve, StoreSave>>
  /\ \E e \in entries : e._id = out.data.entryId /\ e.entryType = "pitch-deck"

\* the stored entries and the suspended inserts that reference an intent
StoredFor(pid) == {e \in entries : e.paymentIntentId = pid}

SuspendedFor(pid) ==
  {c \in BagToSet(inflight) : c.pc = "save" /\ c.doc.paymentIntentId = pid}

\* C16: at most one entry per paymentIntentId is not enforced.  A well-formed
\* submission for a paid intent passes verification and suspends an insert
\* also when an entry for that intent is stored already or another insert
\* for it is suspended; and every insert that is resumed adds its document,
\* whatever the store holds for that intent.
C16_DuplicateIntentNotPrevented ==
  [][/\ \A body \in RaceBodies :
          (/\ GatewayHas(body.paymentIntentId)
           /\ intents[body.paymentIntentId.n].status = Succeeded
           /\ StoredFor(body.paymentIntentId) \cup SuspendedFor(body.paymentIntentId) # {}
           /\ SubmitEntryWithin(body, NoFile, MaxRaceInFlight)
           /\ SubmitRejection(body, NoFile, DbPassed) = NoResp)
          => /\ BagCardinality(inflight') = BagCardinality(inflight) + 1
             /\ \E c \in BagToSet(inflight') :
                  /\ c.doc.paymentIntentId = body.paymentIntentId
                  /\ c.doc.userId = body.userId
                  /\ c.doc.seen = Succeeded
     /\ \A c \in BagToSet(inflight) :
          SaveEntry(c) =>
            /\ out'.code = 201
            /\ Cardinality({e \in entries' : e.paymentIntentId = c.doc.paymentIntentId})
                 = Cardinality(StoredFor(c.doc.paymentIntentId)) + 1]_vars

\* two entries of different users are stored for one intent, each verified
\* against the gateway
C16_Witness ==
  \E e1, e2 \in entries :
    /\ e1._id # e2._id
    /\ e1.paymentIntentId = e2.paymentIntentId
    /\ e1.userId # e2.userId
    /\ e1.seen = Succeeded /\ e2.seen = Succeeded

\* C17: when the retrieval of the payment intent fails (here: the gateway
\* does not know the id), the submission is answered 503, stores nothing and
\* starts no insert.
C17_RetrievalFailureAnswered503 ==
  [][\A body \in SubmitBodies, file \in FilesIn :
       (/\ ~GatewayHas(body.paymentIntentId)
        /\ SubmitEntry(body, file)
        /\ calls' = <<GatewayRetrieve>>)
       => /\ entries' = entries
          /\ inflight' = inflight
          /\ out'.code = 503]_vars

\* the schema rules as the claim lists them, on the fields of a request;
\* of the content rules, those on a text or url that is present (C11 and C13
\* are about the absent ones)
StatedSchemaFailure(body) ==
  \/ body.title < TitleMinLength \/ body.title > TitleMaxLength
  \/ body.description > DescriptionMaxLength
  \/ body.category \notin Categories
  \/ body.entryType \notin EntryTypes
  \/ /\ body.entryType = "text" /\ body.textContent.def
     /\ (\/ StatedWordCount(body.textContent) < MinWords
         \/ StatedWordCount(body.textContent) > MaxWords)
  \/ /\ body.entryType = "video" /\ body.videoUrl.def
     /\ ~(UrlTruthy(body.videoUrl) /\ urlPatternTest(body.videoUrl))

\* C18: a submission whose payment is verified and whose entry fails the
\* schema validation at insert is answered 400 and stores nothing; a
\* submission that passes every check is answered 201 with the id of an
\* entry that is then in the store.
C18_ValidationFailureAnswered400 ==
  [][/\ \A request \in ContentRequests :
          LET body == request[1]
              file == request[2]
          IN  (/\ GatewayHas(body.paymentIntentId)
               /\ intents[body.paymentIntentId.n].status = Succeeded
               /\ SubmitEntry(body, file)
               /\ calls' = <<GatewayRetrieve>>)
              => IF StatedSchemaFailure(body)
                 THEN /\ out'.code = 400
                      /\ entries' = entries
                      /\ inflight' = inflight
                 ELSE Suspended'
     /\ \A c \in BagToSet(inflight) :
          SaveEntry(c) =>
            /\ out'.code = 201
            /\ \E e \in entries' : e._id = out'.data.entryId /\ e \notin entries]_vars

\* no read or write of the store and no change to it
StoreUntouched ==
  /\ {calls'[i] : i \in 1..Len(calls')} \cap (StoreReads \cup StoreWrites) = {}
  /\ entries' = entries
  /\ inflight' = inflight

\* C19: while the database is not connected (the connection check of the
\* request fails), submit, list, get, delete and file retrieval are answered
\* 503 and neither read nor write the store; while the gateway client is not
\* initialized, create-payment-intent and submission are answered 503 and
\* make no gateway call.
C19_DependencyDownAnswered503 ==
  [][/\ ((\/ \E body \in SubmitBodies, file \in FilesIn : SubmitEntry(body, file)
          \/ \E userId \in PathUserIds : ListEntries(userId)
          \/ \E id \in 0..MaxEntries : GetEntry(id)
          \/ \E id \in 0..MaxEntries, userId \in UserIdsIn : DeleteEntry(id, userId)
          \/ \E pid \in PathPidsIn : GetFile(pid))
         /\ ~DbPassed)
        => (out'.code = 503 /\ StoreUntouched)
     /\ (~stripe
         /\ (\/ \E category \in CreateCategoriesIn, entryType \in CreateEntryTypesIn :
                  CreatePaymentIntent(category, entryType)
             \/ \E body \in SubmitBodies, file \in FilesIn : SubmitEntry(body, file)))
        => /\ out'.code = 503
           /\ {calls'[i] : i \in 1..Len(calls')} \cap GatewayCalls = {}
           /\ intents' = intents]_vars

\* `sent` is the stored entry `e` as a response may show it: without
\* fileData, with the retrieval url when e is a pitch deck with stored
\* content, and every other field as stored
ShownAs(sent, e) ==
  /\ sent.fileData = NoData
  /\ (e.entryType = "pitch-deck" /\ DataTruthy(e.fileData))
       => sent.fileUrl = RetrievalUrl(e.paymentIntentId)
  /\ [sent EXCEPT !.fileData = e.fileData, !.fileUrl = e.fileUrl] = e

\* C20: with the database connected, the list for a userId holds exactly the
\* stored entries of that userId, latest creation first; the entries a list
\* or a fetch (of a well-formed id that is in the store) answers with carry
\* no fileData and, for a pitch deck with stored content, the url
\* /api/file/{paymentIntentId}; neither request changes the stored entries.
C20_ListingExactSortedStripped ==
  [][/\ \A userId \in PathUserIds :
          (DbPassed /\ ListEntries(userId))
          => LET sent == out'.payload
             IN  /\ out'.code = 200
                 /\ Len(sent) = Cardinality(find(userId))
                 /\ \A e \in find(userId) : \E i \in 1..Len(sent) : ShownAs(sent[i], e)
                 /\ \A i \in 1..Len(sent) : \E e \in find(userId) : ShownAs(sent[i], e)
                 /\ \A i, j \in 1..Len(sent) :
                      i < j => sent[i].createdAt >= sent[j].createdAt
                 /\ entries' = entries
     /\ \A id \in 1..MaxEntries :
          (DbPassed /\ findById(id) # {} /\ GetEntry(id))
          => /\ out'.code = 200
             /\ Len(out'.payload) = 1
             /\ \E e \in findById(id) : ShownAs(out'.payload[1], e)
             /\ entries' = entries]_vars

\* a user's list of two entries has just been sent, the later one first, one
\* of them a pitch deck whose content is in the store and whose url is in
\* the list
C20_Witness ==
  /\ out.op = "list"
  /\ out.code = 200
  /\ Len(out.payload) = 2
  /\ out.payload[1].createdAt > out.payload[2].createdAt
  /\ \E i \in 1..2, e \in entries :
       /\ e._id = out.payload[i]._id
       /\ e.entryType = "pitch-deck"
       /\ DataTruthy(e.fileData)
       /\ out.payload[i].fileUrl = RetrievalUrl(e.paymentIntentId)
       /\ out.payload[i].fileData = NoData

\* the file fields of a document
FileFields(doc) ==
  [fileData |-> doc.fileData, fileName |-> doc.fileName,
   fileType |-> doc.fileType, fileSize |-> doc.fileSize]

\* what GET /api/file sends for a stored entry
FileOf(entry) ==
  [fileType |-> entry.fileType, fileName |-> entry.fileName,
   fileSize |-> entry.fileSize, fileBuffer |-> FromBase64(entry.fileData.chars)]

\* C21: with the database connected, GET /api/file/{pid} answers 404 when no
\* stored entry has that paymentIntentId or the entry located has no stored
\* content, and otherwise 200 with the decoded content, file name, MIME type
\* and size of the entry located; the document a pitch-deck submission hands
\* to the insert decodes to the bytes of its upload and records the upload's
\* name, MIME type and size; the insert stores the document as handed over
\* and no later step changes the file fields of a stored entry.
C21_FileRoundTrip ==
  [][/\ \A pid \in PathPidsIn :
          (DbPassed /\ GetFile(pid))
          => LET located == {e \in entries : e.paymentIntentId = pid}
             IN  /\ out'.code \in {200, 404}
                 /\ (\A e \in located : ~DataTruthy(e.fileData)) => out'.code = 404
                 /\ out'.code = 404
                      => (located = {} \/ \E e \in located : ~DataTruthy(e.fileData))
                 /\ out'.code = 200
                      => \E e \in located :
                           /\ DataTruthy(e.fileData)
                           /\ out'.payload = <<FileOf(e)>>
     /\ \A request \in ListingRequests :
          (variant = "retry" /\ request[2].present
           /\ SubmitEntry(request[1], request[2]) /\ inflight' # inflight)
          => \E c \in BagToSet(inflight') :
               /\ CopiesIn(c, inflight') > CopiesIn(c, inflight)
               /\ FromBase64(c.doc.fileData.chars) = request[2].buffer
               /\ c.doc.fileName = request[2].originalname
               /\ c.doc.fileType = request[2].mimetype
               /\ c.doc.fileSize = request[2].size
     /\ \A c \in BagToSet(inflight) :
          SaveEntry(c) => \E e \in entries' \ entries : FileFields(e) = FileFields(c.doc)
     /\ \A e \in entries : \A f \in entries' :
          f._id = e._id => FileFields(f) = FileFields(e)]_vars

\* the four bytes of an uploaded pdf have just been sent back under its name,
\* type and size, decoded from the entry in the store
C21_Witness ==
  /\ out.op = "file"
  /\ out.code = 200
  /\ out.payload = <<[fileType |-> Pdf.mimetype, fileName |-> Pdf.originalname,
                      fileSize |-> Pdf.size, fileBuffer |-> Pdf.buffer]>>
  /\ \E e \in entries : e.entryType = "pitch-deck" /\ e.fileData.chars = Base64(Pdf.buffer)

\* C22: with the database connected, a file request for the paymentIntentId
\* of a stored pitch-deck entry that came from the submission workflow is
\* answered 200 with that entry's own content, whichever such entry it is.
C22_DeckFileDereferenceable ==
  [][\A pid \in PathPidsIn :
       (DbPassed /\ GetFile(pid))
       => \A e \in entries :
            (FromSubmission(e) /\ e.entryType = "pitch-deck" /\ e.paymentIntentId = pid)
            => (out'.code = 200 /\ out'.payload = <<FileOf(e)>>)]_vars

\* the content fields that hold something
TextPopulated(e) == e.textContent.def /\ e.textContent # EmptyText

FilePopulated(e) == DataTruthy(e.fileData) \/ FileUrlTruthy(e.fileUrl)

VideoPopulated(e) == e.videoUrl.def /\ e.videoUrl # EmptyUrl

\* C23: in every reachable state, each stored entry has its text populated
\* exactly when it is a text entry, its file reference (fileData or fileUrl)
\* exactly when it is a pitch deck, and its video url exactly when it is a
\* video entry.
C23_OneContentMatchingType ==
  \A e \in entries :
    /\ TextPopulated(e) <=> e.entryType = "text"
    /\ FilePopulated(e) <=> e.entryType = "pitch-deck"
    /\ VideoPopulated(e) <=> e.entryType = "video"

\* the size limit of the environment as stated: 4 MB when running
\* serverless or in production, 25 MB otherwise
StatedSizeLimit == IF isVercelServerless THEN 4 * MB ELSE 25 * MB

FileSizeErrors ==
  {"File too large", "File too large. Maximum size is 25MB.",
   "File size exceeds 4MB limit.", "File size exceeds 25MB limit."}

\* C24: a pitch-deck submission (every required field present, a file of an
\* allowed type; in the cached build, the database connected) whose file is
\* larger than the limit of the environment is answered 400, nothing is
\* stored and no insert is started; a file of exactly the limit is not
\* refused for its size.
C24_FileSizeLimit ==
  [][\A request \in ContentRequests :
       (/\ request[1].entryType = "pitch-deck"
        /\ request[2].present
        /\ request[2].mimetype \in AllowedMimeTypes
        /\ variant = "cached" => DbPassed
        /\ SubmitEntry(request[1], request[2]))
       => /\ request[2].size > StatedSizeLimit
               => (out'.code = 400 /\ entries' = entries /\ inflight' = inflight)
          /\ request[2].size = StatedSizeLimit => out'.error \notin FileSizeErrors]_vars

\* C26: the intent a create-payment-intent request creates carries in its
\* metadata the category and entry type of the request and the decimal
\* strings of the entryFee and stripeFee the request is answered with; and
\* for every intent of the gateway the total the submission handler
\* recomputes from the metadata, parseInt(entryFee) + parseInt(stripeFee),
\* times 100 is the amount the intent charges.
C26_MetadataRoundTrip ==
  [][/\ \A category \in AllCreateCategoriesIn, entryType \in CreateEntryTypesIn :
          (CreatePaymentIntent(category, entryType) /\ intents' # intents)
          => LET paymentIntent == intents'[Len(intents')]
             IN  /\ Len(intents') = Len(intents) + 1
                 /\ paymentIntent.metadata.category = category
                 /\ paymentIntent.metadata.entryType = entryType
                 /\ out'.code = 200
                 /\ ParseInt(paymentIntent.metadata.entryFee) = out'.data.entryFee
                 /\ ParseInt(paymentIntent.metadata.stripeFee) = out'.data.stripeFee
                 /\ out'.data.entryFee # NaN /\ out'.data.stripeFee # NaN
     /\ \A n \in 1..Len(intents') :
          LET fees == FeesFromIntent(intents'[n], BaseBody)
          IN  fees.totalAmount # NaN /\ fees.totalAmount * 100 = intents'[n].amount]_vars

\* a technology intent has just been created: 99 and 4 in the metadata,
\* 10300 cents charged
C26_Witness ==
  /\ out.op = "create-payment-intent"
  /\ out.code = 200
  /\ \E n \in 1..Len(intents) :
       /\ intents[n].metadata.category = "technology"
       /\ ParseInt(intents[n].metadata.entryFee) = 99
       /\ ParseInt(intents[n].metadata.stripeFee) = 4
       /\ intents[n].amount = 10300

\* C27: in every reachable state, every entry stored by the submission
\* workflow has the category and entry type recorded in the metadata of the
\* intent it references, and its entryFee is the base fee of its category.
C27_EntryMatchesIntent ==
  \A e \in entries :
    FromSubmission(e)
    => /\ GatewayHas(e.paymentIntentId)
       /\ e.category = intents[e.paymentIntentId.n].metadata.category
       /\ e.entryType = intents[e.paymentIntentId.n].metadata.entryType
       /\ e.entryFee = baseFees(e.category)

\* C25: the process ends only in the start-up step of the locally run cached
\* build whose first connection fails; no step that serves a request, sends
\* a response or retries a start-up call ends it, whether the request meets
\* a dependency that is down or a webhook update that fails.
C25_NoRequestExits ==
  [][exited' => (exited \/ (Listen /\ readyState' # 1))]_vars

\* a webhook delivery whose update failed has been answered 500 and the
\* process is still running
C25_Witness ==
  /\ ~exited
  /\ out = Resp("webhook", 500, "Failed to process webhook")
  /\ calls = <<StoreFindOneAndUpdate>>

\* the continuations this step has suspended at `pc`
NewlyAt(pc) == {c \in BagToSet(inflight') \ BagToSet(inflight) : c.pc = pc}

\* C28: in the cached build, with requests that overlap, a connectDB call
\* calls mongoose.disconnect() only when no other request is at its connect
\* call or in its handler; cachedConnection changes only when a connect
\* attempt ends and is then non-null exactly if the attempt succeeded; and a
\* request enters its handler only with readyState 1.
C28_ConnectIsolated ==
  [][variant = "cached"
     => /\ \A r \in 1..MaxConnectRequests :
             (ConnectMiddleware(r) /\ NewlyAt("disconnect") # {})
             => (AtPc("connect") = {} /\ AtPc("handler") = {})
        /\ IF readyState = 2 /\ readyState' # 2
           THEN cachedConnection' = (readyState' # 0)
           ELSE cachedConnection' = cachedConnection
        /\ NewlyAt("handler") # {} => readyState' = 1]_vars

\* C29: in the retry build the gateway handle `stripe` is set, so that
\* /api/health reports 'initialized' and checkStripeInitialized lets a
\* request through, only after an initializeStripe attempt has verified the
\* connection; while no attempt has verified it, a payment-intent or
\* submission request is answered 503.
C29_StripeSetOnlyVerified ==
  [][variant = "retry"
     => /\ HealthStripe' = "initialized" => stripeVerified'
        /\ (/\ ~stripeVerified
            /\ out = NoResp
            /\ out'.op \in {"create-payment-intent", "submit"})
           => out'.code = 503]_vars

\* C30: in the retry build a connection attempt that fails leaves the
\* process running and leaves exactly one further connectDB call on the
\* timer; an attempt that succeeds leaves none, and from then on no request
\* is answered 503 'Database not connected'; and if from some point on no
\* attempt fails, the server is eventually connected for good.
C30_RetryUntilConnected ==
  /\ [][variant = "retry"
        => /\ (readyState = 2 /\ readyState' = 0)
              => (~exited' /\ dbAttempts' = 1)
           /\ (readyState = 2 /\ readyState' = 1) => dbAttempts' = 0
           /\ (readyState = 1 /\ out = NoResp)
              => (readyState' = 1 /\ out' # DbDownResp(out'.op))]_vars
  /\ (<>[][(variant = "retry" /\ readyState = 2) => readyState' # 0]_vars)
     => <>[](variant = "retry" => readyState = 1 /\ dbAttempts = 0)

\* the first connection attempt of the retry build has failed: the process
\* runs, one connectDB call is on the timer and a listing request has been
\* answered 503
C30_Witness ==
  /\ variant = "retry"
  /\ readyState = 0
  /\ dbAttempts = 1
  /\ ~exited
  /\ out = DbDownResp("list")

====
